---- MODULE Spec2Model ----
(***************************************************************************)
(* Battleship-solitaire solver (src/battle.py): the CSP variables with     *)
(* their current domains and undo ledger, the water / row / column         *)
(* constraints with their support search, GAC propagation (gac_enforce),   *)
(* the backtracking search (CSP.gac) and the terminal fleet check          *)
(* (check_ship_constraints).  One behaviour is one run of __main__ on one  *)
(* puzzle file.                                                            *)
(***************************************************************************)
EXTENDS Integers, Sequences, FiniteSets, TLC

VARIABLES
    row_constraints,   \* state.row_constraints : row index -> target
    col_constraints,   \* state.col_constraints : column index -> target
    ship_constraints,  \* state.ship_constraints: <<subs, destroyers, cruisers, battleships>>
    hints,             \* the board as read from the file (cell -> char, "0" = no hint)
    dom,               \* Variable._dom      : cell -> sequence of values
    curdom,            \* Variable._curdom   : cell -> sequence of values
    curdom_size,       \* Variable.curdom_size : cell -> number
    value,             \* Variable._value    : cell -> value or None
    undoDict,          \* Variable.undoDict  : (reasonVar, reasonVal) -> list of (var, val)
    unassignedvars,    \* the stack of unassigned variables handed to CSP.gac
    stack,             \* the active CSP.gac calls inside their value loop: var, the copied
                       \* curDomain (vals), the loop index (idx); pre records the working
                       \* sets as they were when the current value was assigned
                       \* and entry the values, working sets, unassigned stack and
                       \* ledger as they were when the call began
    pc,                \* where the run is
    constraints,       \* gac_enforce's worklist
    cursor,            \* gac_enforce's position: constraint, scope index, _curdom iterator index
    enforced,          \* what the last gac_enforce call returned
    sol_found,         \* what the last CSP.gac call returned
    solution,          \* CSP.solution
    restores,          \* history: (var, val) -> how often the pair was assigned and how
                       \* often restoreValues was called for it, in this run
    result,            \* outcome of the last direct call of a Variable / CSP method
    calls              \* number of direct method calls made so far

vars == <<row_constraints, col_constraints, ship_constraints, hints, dom, curdom,
          curdom_size, value, undoDict, unassignedvars, stack, pc, constraints,
          cursor, enforced, sol_found, solution, restores, result, calls>>

\* what only the direct method calls write
api == <<result, calls>>

puzzle == <<row_constraints, col_constraints, ship_constraints, hints, dom, curdom_size>>

-----------------------------------------------------------------------------
(* Bounds of the model *)

Dim == 3          \* the board is Dim x Dim

-----------------------------------------------------------------------------
(* The grid *)

None == "None"
NL == "\n"
NCells == Dim * Dim
Cells == 0 .. (NCells - 1)
Lines == 0 .. (Dim - 1)
RowOf(k) == k \div Dim
ColOf(k) == k % Dim
V(i, j) == i * Dim + j
ShipChars == {"S", "M", "<", ">", "^", "v"}
HintChars == {".", "S", "<"}

RECURSIVE SumTo(_, _)
SumTo(f, n) == IF n < 0 THEN 0 ELSE f[n] + SumTo(f, n - 1)

Diagonals(k) ==
    {d \in Cells : /\ RowOf(d) - RowOf(k) \in {-1, 1}
                   /\ ColOf(d) - ColOf(k) \in {-1, 1}}

ZeroFill(board, rc, cc) ==
    [k \in Cells |-> IF rc[RowOf(k)] = 0 \/ cc[ColOf(k)] = 0 THEN "." ELSE board[k]]

RECURSIVE SurroundShips(_, _)
SurroundShips(board, k) ==
    IF k >= NCells THEN board
    ELSE IF board[k] # "." /\ board[k] # "0"
         THEN SurroundShips([d \in Cells |-> IF d = k THEN "S"
                                             ELSE IF d \in Diagonals(k) THEN "."
                                             ELSE board[d]], k + 1)
         ELSE SurroundShips(board, k + 1)

precondition_state(board, rc, cc) == SurroundShips(ZeroFill(board, rc, cc), 0)

init_domain(ch) == IF ch = "0" THEN <<"S", ".">> ELSE IF ch = "." THEN <<".">> ELSE <<"S">>
\* init_value_open: ship hints are left unassigned
init_value_open(ch) == IF ch = "." THEN "." ELSE None
init_value(ch) == IF ch = "0" THEN None ELSE IF ch = "." THEN "." ELSE "S"

RECURSIVE CellSeq(_)
CellSeq(n) == IF n = 0 THEN <<>> ELSE Append(CellSeq(n - 1), n - 1)

variables == CellSeq(NCells)

-----------------------------------------------------------------------------
(* The constraint list built by __main__ *)

Water(a, b) == [kind |-> "water", scope |-> <<a, b>>, k |-> 0]

\* WaterAt_upper: a construction that pairs a cell with its upper diagonals only
WaterAt_upper(i, j) ==
    IF j = 0 THEN << Water(V(i, j), V(i - 1, j + 1)) >>
    ELSE IF j = Dim - 1 THEN << Water(V(i, j), V(i - 1, j - 1)) >>
    ELSE << Water(V(i, j), V(i - 1, j - 1)), Water(V(i, j), V(i - 1, j + 1)) >>
WaterAt(i, j) ==
    LET me == V(i, j)
        TL == Water(me, V(i - 1, j - 1))
        TR == Water(me, V(i - 1, j + 1))
        BL == Water(me, V(i + 1, j - 1))
        BR == Water(me, V(i + 1, j + 1))
    IN  IF i = Dim - 1 /\ j = 0 THEN <<TR>>
        ELSE IF i = Dim - 1 /\ j = Dim - 1 THEN <<TL>>
        ELSE IF i = Dim - 1 THEN <<TL, TR>>
        ELSE IF j = 0 THEN <<TR, BR>>
        ELSE IF j = Dim - 1 THEN <<TL, BL>>
        ELSE <<TR, BR, TL, BL>>

RECURSIVE WaterFrom(_)
WaterFrom(n) ==
    IF n >= NCells THEN <<>>
    ELSE (IF RowOf(n) % 2 = 1 THEN WaterAt(RowOf(n), ColOf(n)) ELSE <<>>) \o WaterFrom(n + 1)

RowScope(i) == [j \in 1 .. Dim |-> V(i, j - 1)]
ColScope(i) == [j \in 1 .. Dim |-> i + (j - 1) * Dim]

RECURSIVE LinesFrom(_)
LinesFrom(i) ==
    IF i >= Dim THEN <<>>
    ELSE << [kind |-> "row", scope |-> RowScope(i), k |-> i],
            [kind |-> "col", scope |-> ColScope(i), k |-> i] >> \o LinesFrom(i + 1)

conslist == WaterFrom(0) \o LinesFrom(0)

ConsIds == 1 .. Len(conslist)
scope(c) == conslist[c].scope
arity(c) == Len(scope(c))
InScope(v, c) == \E i \in 1 .. arity(c) : scope(c)[i] = v

RECURSIVE IdSeq(_)
IdSeq(n) == IF n = 0 THEN <<>> ELSE Append(IdSeq(n - 1), n)

constraintsOf(v) == SelectSeq(IdSeq(Len(conslist)), LAMBDA c : InScope(v, c))

-----------------------------------------------------------------------------
(* Variable *)

isAssigned(v) == value[v] # None
curDomain(v) == IF isAssigned(v) THEN <<value[v]>> ELSE curdom[v]
curDomainSize(v) == IF isAssigned(v) THEN 1 ELSE Len(curdom[v])
AsSet(s) == {s[i] : i \in 1 .. Len(s)}

\* list.remove(x): drops the first occurrence; the list is unchanged when x is absent
RECURSIVE Remove(_, _)
Remove(s, x) ==
    IF Len(s) = 0 THEN s
    ELSE IF Head(s) = x THEN Tail(s)
    ELSE <<Head(s)>> \o Remove(Tail(s), x)

NoLedger == [key \in {} |-> <<>>]

\* pruneValue_grows: a prune that puts the value in once more instead of taking it out
pruneValue_grows(cd, v, x) == [cd EXCEPT ![v] = Append(cd[v], x)]
pruneValue_curdom(cd, v, x) == [cd EXCEPT ![v] = Remove(cd[v], x)]

pruneValue_undo(ud, v, x, reasonVar, reasonVal) ==
    LET dkey == <<reasonVar, reasonVal>>
        old == IF dkey \in DOMAIN ud THEN ud[dkey] ELSE <<>>
    IN  [key \in (DOMAIN ud) \cup {dkey} |->
            IF key = dkey THEN Append(old, <<v, x>>) ELSE ud[key]]

\* restoreVal_twice: a restore that puts every value back two times
RECURSIVE restoreVal_twice(_, _)
restoreVal_twice(cd, list) ==
    IF Len(list) = 0 THEN cd
    ELSE restoreVal_twice([cd EXCEPT ![Head(list)[1]] = Append(Append(@, Head(list)[2]), Head(list)[2])],
                          Tail(list))
\* for each (var, val) recorded under the key: var.restoreVal(val), an append
RECURSIVE restoreVal(_, _)
restoreVal(cd, list) ==
    IF Len(list) = 0 THEN cd
    ELSE restoreVal([cd EXCEPT ![Head(list)[1]] = Append(@, Head(list)[2])], Tail(list))

\* restoreValues_nothing: a restore that gives nothing back
restoreValues_nothing(cd, ud, reasonVar, reasonVal) == cd
\* restoreValues_resets: a restore that, finding no key, puts every working set back to the domain
restoreValues_resets(cd, ud, reasonVar, reasonVal) ==
    IF <<reasonVar, reasonVal>> \in DOMAIN ud
    THEN restoreVal(cd, ud[<<reasonVar, reasonVal>>]) ELSE dom
restoreValues_curdom(cd, ud, reasonVar, reasonVal) ==
    LET dkey == <<reasonVar, reasonVal>>
    IN  IF dkey \in DOMAIN ud THEN restoreVal(cd, ud[dkey]) ELSE cd

\* restoreValues_empties: a restore that empties the key's list but leaves the key
restoreValues_empties(ud, reasonVar, reasonVal) ==
    [key \in DOMAIN ud |-> IF key = <<reasonVar, reasonVal>> THEN <<>> ELSE ud[key]]
\* restoreValues_keeps: a restore that leaves the key in the ledger
restoreValues_keeps(ud, reasonVar, reasonVal) == ud
restoreValues_undo(ud, reasonVar, reasonVal) ==
    LET dkey == <<reasonVar, reasonVal>>
    IN  [key \in (DOMAIN ud) \ {dkey} |-> ud[key]]

-----------------------------------------------------------------------------
(* Constraints: the test functions and the support search *)

NumIn(l, S) == Cardinality({i \in 1 .. Len(l) : l[i][2] \in S})

\* water_constraints.hasSupport.valsOK with required ['.'], lower bound 1, upper bound 2;
\* valsOK_any is a water test that lets any pair through
valsOK_any(c, l) == TRUE
valsOK(c, l) ==
    LET rv_count == NumIn(l, {"."})
        least == rv_count + arity(c) - Len(l)
        most == rv_count
    IN  1 <= least /\ 2 >= most

\* valsOK_strict: a test that holds a partial list to the bounds of a complete one
valsOK_strict(required, lb, ub, n, l) == lb <= NumIn(l, required) /\ ub >= NumIn(l, required)
\* the same test of a count-range constraint built with any required values and
\* bounds over n variables (water_constraints / NValuesConstraint .hasSupport.valsOK)
valsOK_range(required, lb, ub, n, l) ==
    LET rv_count == NumIn(l, required)
        least == rv_count + n - Len(l)
        most == rv_count
    IN  lb <= least /\ ub >= most

check_rows(c, l) ==
    LET ship_parts == NumIn(l, {"S"})
    IN  IF Len(l) < arity(c)
        THEN ship_parts <= row_constraints[conslist[c].k]
        ELSE ship_parts = row_constraints[conslist[c].k]

check_cols(c, l) ==
    LET ship_parts == NumIn(l, ShipChars)
    IN  IF Len(l) < arity(c)
        THEN ship_parts <= col_constraints[conslist[c].k]
        ELSE ship_parts <= col_constraints[conslist[c].k]

testfn(c, l) ==
    IF conslist[c].kind = "water" THEN valsOK(c, l)
    ELSE IF conslist[c].kind = "row" THEN check_rows(c, l)
    ELSE check_cols(c, l)

\* list.sort(reverse=True, key=curDomainSize): stable, largest current domain first
RECURSIVE InsertDesc(_, _)
InsertDesc(sorted, v) ==
    IF Len(sorted) = 0 THEN <<v>>
    ELSE IF curDomainSize(Head(sorted)) >= curDomainSize(v)
         THEN <<Head(sorted)>> \o InsertDesc(Tail(sorted), v)
         ELSE <<v>> \o sorted

RECURSIVE SortDesc(_)
SortDesc(s) == IF Len(s) = 0 THEN <<>> ELSE InsertDesc(SortDesc(SubSeq(s, 1, Len(s) - 1)), s[Len(s)])

RECURSIVE findvals_(_, _, _)
findvals_(remainingVars, assignment, c) ==
    IF Len(remainingVars) = 0 THEN testfn(c, assignment)
    ELSE LET var == remainingVars[Len(remainingVars)]
             rest == SubSeq(remainingVars, 1, Len(remainingVars) - 1)
             d == curDomain(var)
         IN  \E i \in 1 .. Len(d) :
                /\ testfn(c, Append(assignment, <<var, d[i]>>))
                /\ findvals_(rest, Append(assignment, <<var, d[i]>>), c)

findvals(remainingVars, assignment, c) == findvals_(SortDesc(remainingVars), assignment, c)

\* hasSupport_searches: a support test without the scope test of its first line
hasSupport_searches(c, var, val) == findvals(Remove(scope(c), var), << <<var, val>> >>, c)
hasSupport(c, var, val) ==
    IF ~InScope(var, c) THEN TRUE
    ELSE findvals(Remove(scope(c), var), << <<var, val>> >>, c)

-----------------------------------------------------------------------------
(* The terminal fleet check *)

\* str.replace(old, new): left to right, non-overlapping
RECURSIVE replace(_, _, _)
replace(s, old, new) ==
    IF Len(s) < Len(old) THEN s
    ELSE IF SubSeq(s, 1, Len(old)) = old
         THEN new \o replace(SubSeq(s, Len(old) + 1, Len(s)), old, new)
         ELSE <<Head(s)>> \o replace(Tail(s), old, new)

\* str.count(sub): non-overlapping occurrences
RECURSIVE count(_, _)
count(s, sub) ==
    IF Len(s) < Len(sub) THEN 0
    ELSE IF SubSeq(s, 1, Len(sub)) = sub
         THEN 1 + count(SubSeq(s, Len(sub) + 1, Len(s)), sub)
         ELSE count(Tail(s), sub)

\* convert_to_str of a board given as cell -> char: Dim lines of Dim characters
convert_to_str(board) ==
    [p \in 1 .. Dim * (Dim + 1) |->
        IF p % (Dim + 1) = 0 THEN NL
        ELSE board[V((p - 1) \div (Dim + 1), (p - 1) % (Dim + 1))]]

transpose(board) == [k \in Cells |-> board[V(ColOf(k), RowOf(k))]]

\* the board a string of Dim lines stands for (splitlines, then list of each line)
splitlines(str) == [k \in Cells |-> str[RowOf(k) * (Dim + 1) + ColOf(k) + 1]]

implement_assignment(assignment) == [k \in Cells |-> IF assignment[k] = None THEN "0" ELSE assignment[k]]

\* the final comparison of the counted ships with the fleet vector;
\* fleet_any accepts every count
fleet_any(submarines_count, destroyers_count, cruisers_count, battleships_count) == TRUE
fleet_matches(submarines_count, destroyers_count, cruisers_count, battleships_count) ==
    /\ submarines_count = ship_constraints[1]
    /\ destroyers_count = ship_constraints[2]
    /\ cruisers_count = ship_constraints[3]
    /\ battleships_count = ship_constraints[4]

\* check_ship_constraints_hintless: the check without its comparison with the hints
check_ship_constraints_hintless(assignment) ==
    LET new_board == implement_assignment(assignment)
        rows0 == convert_to_str(new_board)
        cols0 == convert_to_str(transpose(new_board))
        rows == replace(replace(replace(rows0, <<"S","S","S","S">>, <<"<","M","M",">">>),
                                <<"S","S","S">>, <<"<","M",">">>), <<"S","S">>, <<"<",">">>)
        cols1 == replace(replace(replace(cols0, <<"S","S","S","S">>, <<"^","M","M","v">>),
                                 <<"S","S","S">>, <<"^","M","v">>), <<"S","S">>, <<"^","v">>)
        bad_cases == count(rows, <<">","<">>) + count(rows, <<">","S">>) + count(rows, <<"S","<">>)
                     + count(cols1, <<"v","^">>) + count(cols1, <<"v","S">>) + count(cols1, <<"S","^">>)
        destroyers_count == count(rows, <<"<",">">>) + count(cols1, <<"^","v">>)
        cruisers_count == count(rows, <<"<","M",">">>) + count(cols1, <<"^","M","v">>)
        battleships_count == count(rows, <<"<","M","M",">">>) + count(cols1, <<"^","M","M","v">>)
        cols == convert_to_str(transpose(splitlines(cols1)))
        sol_board == [i \in 1 .. Len(rows) |->
                        IF cols[i] \notin {"S", ".", NL} THEN cols[i] ELSE rows[i]]
        submarines_count == count(sol_board, <<"S">>)
        sol_string == SelectSeq(sol_board, LAMBDA ch : ch # NL)
    IN  IF bad_cases > 0 THEN <<FALSE, "Error: Ships overlap.">>
        ELSE IF fleet_matches(submarines_count, destroyers_count, cruisers_count, battleships_count)
             THEN <<TRUE, sol_board>>
             ELSE <<FALSE, "wrong">>
check_ship_constraints(assignment) ==
    LET new_board == implement_assignment(assignment)
        rows0 == convert_to_str(new_board)
        cols0 == convert_to_str(transpose(new_board))
        rows == replace(replace(replace(rows0, <<"S","S","S","S">>, <<"<","M","M",">">>),
                                <<"S","S","S">>, <<"<","M",">">>), <<"S","S">>, <<"<",">">>)
        cols1 == replace(replace(replace(cols0, <<"S","S","S","S">>, <<"^","M","M","v">>),
                                 <<"S","S","S">>, <<"^","M","v">>), <<"S","S">>, <<"^","v">>)
        bad_cases == count(rows, <<">","<">>) + count(rows, <<">","S">>) + count(rows, <<"S","<">>)
                     + count(cols1, <<"v","^">>) + count(cols1, <<"v","S">>) + count(cols1, <<"S","^">>)
        destroyers_count == count(rows, <<"<",">">>) + count(cols1, <<"^","v">>)
        cruisers_count == count(rows, <<"<","M",">">>) + count(cols1, <<"^","M","v">>)
        battleships_count == count(rows, <<"<","M","M",">">>) + count(cols1, <<"^","M","M","v">>)
        cols == convert_to_str(transpose(splitlines(cols1)))
        sol_board == [i \in 1 .. Len(rows) |->
                        IF cols[i] \notin {"S", ".", NL} THEN cols[i] ELSE rows[i]]
        submarines_count == count(sol_board, <<"S">>)
        sol_string == SelectSeq(sol_board, LAMBDA ch : ch # NL)
        hint_wrong == \E k \in Cells : hints[k] # "0" /\ hints[k] # sol_string[k + 1]
    IN  IF bad_cases > 0 THEN <<FALSE, "Error: Ships overlap.">>
        ELSE IF hint_wrong THEN <<FALSE, "Error: Hint is not in the correct place.">>
        ELSE IF fleet_matches(submarines_count, destroyers_count, cruisers_count, battleships_count)
             THEN <<TRUE, sol_board>>
             ELSE <<FALSE, "wrong">>

-----------------------------------------------------------------------------
(* The puzzles read from the input file *)

\* the row targets ask for fewer than Dim ship cells in all, and so do the column targets
Targets == {t \in [Lines -> 0 .. Dim] : SumTo(t, Dim - 1) <= Dim - 1}

\* the fleets whose ships cover as many cells as the row targets ask for
Weight(f) == f[1] + 2 * f[2] + 3 * f[3] + 4 * f[4]
Fleets(rc) == {f \in [1 .. 4 -> 0 .. Dim] : Weight(f) = SumTo(rc, Dim - 1)}

\* at most one cell of the input board carries a hint, on the main diagonal
HintCells == {V(i, i) : i \in Lines}
NoHints == [k \in Cells |-> "0"]
Boards == {NoHints} \cup {[NoHints EXCEPT ![h] = ch] : h \in HintCells, ch \in HintChars}

Idle == [c |-> 0, vi |-> 0, di |-> 0]
NoResult == [op |-> "none"]

Init ==
    \E rc \in Targets, cc \in Targets, hb \in Boards :
      \E sc \in Fleets(rc) :
        LET board == precondition_state(hb, rc, cc)
        IN  /\ row_constraints = rc
            /\ col_constraints = cc
            /\ ship_constraints = sc
            /\ hints = hb
            /\ dom = [k \in Cells |-> init_domain(board[k])]
            /\ curdom = [k \in Cells |-> init_domain(board[k])]
            /\ curdom_size = [k \in Cells |-> Len(init_domain(board[k]))]
            /\ value = [k \in Cells |-> init_value(board[k])]
            /\ undoDict = NoLedger
            /\ unassignedvars = SelectSeq(variables, LAMBDA k : init_value(board[k]) = None)
            /\ stack = <<>>
            /\ pc = "gac"
            /\ constraints = <<>>
            /\ cursor = Idle
            /\ enforced = "none"
            /\ sol_found = FALSE
            /\ solution = <<>>
            /\ restores = NoLedger
            /\ result = NoResult
            /\ calls = 0

-----------------------------------------------------------------------------
(* CSP.gac_enforce *)

\* the next (variable, value) the two for-loops over c's scope and the live
\* _curdom list reach from position (vi, di), or Idle when the loops are over
RECURSIVE Advance(_, _, _, _)
Advance(c, vi, di, cd) ==
    IF vi > arity(c) THEN Idle
    ELSE IF di > Len(cd[scope(c)[vi]]) THEN Advance(c, vi + 1, 1, cd)
    ELSE [c |-> c, vi |-> vi, di |-> di]

\* for c2 in constraintsOf(var): if c2 != c and not c2 in constraints: append;
\* Requeue_none leaves the worklist as it is
Requeue_none(work, cs, c) == work
RECURSIVE Requeue(_, _, _)
Requeue(work, cs, c) ==
    IF Len(cs) = 0 THEN work
    ELSE IF Head(cs) # c /\ Head(cs) \notin AsSet(work)
         THEN Requeue(Append(work, Head(cs)), Tail(cs), c)
         ELSE Requeue(work, Tail(cs), c)

Top == stack[Len(stack)]
assignedvar == Top.var
assignedval == Top.vals[Top.idx]

\* while len(constraints) > 0: c = constraints.pop();
\* EnforcePop_keeps reads the last constraint and leaves it on the worklist
EnforcePop_keeps ==
    /\ pc = "gac_enforce"
    /\ cursor = Idle
    /\ Len(constraints) > 0
    /\ cursor' = Advance(constraints[Len(constraints)], 1, 1, curdom)
    /\ UNCHANGED <<puzzle, api, restores, curdom, value, undoDict, unassignedvars, stack, pc, enforced,
                   sol_found, solution, constraints>>
EnforcePop ==
    /\ pc = "gac_enforce"
    /\ cursor = Idle
    /\ Len(constraints) > 0
    /\ cursor' = Advance(constraints[Len(constraints)], 1, 1, curdom)
    /\ constraints' = SubSeq(constraints, 1, Len(constraints) - 1)
    /\ UNCHANGED <<puzzle, api, restores, curdom, value, undoDict, unassignedvars, stack, pc, enforced,
                   sol_found, solution>>

\* one pass of the loop body for the value the iterator yields
EnforceValue ==
    /\ pc = "gac_enforce"
    /\ cursor # Idle
    /\ LET c == cursor.c
           var == scope(c)[cursor.vi]
           val == curdom[var][cursor.di]
       IN  IF hasSupport(c, var, val)
           THEN /\ cursor' = Advance(c, cursor.vi, cursor.di + 1, curdom)
                /\ UNCHANGED <<curdom, undoDict, constraints, pc, enforced>>
           ELSE /\ curdom' = pruneValue_curdom(curdom, var, val)
                /\ undoDict' = pruneValue_undo(undoDict, var, val, assignedvar, assignedval)
                /\ IF curdom_size[var] = 0
                   THEN /\ enforced' = "DWO"
                        /\ pc' = "enforced"
                        /\ cursor' = Idle
                        /\ constraints' = <<>>
                   ELSE /\ constraints' = Requeue(constraints, constraintsOf(var), c)
                        /\ cursor' = Advance(c, cursor.vi, cursor.di + 1, curdom')
                        /\ UNCHANGED <<pc, enforced>>
    /\ UNCHANGED <<puzzle, api, restores, value, unassignedvars, stack, sol_found, solution>>

\* the worklist is empty: return "OK"
EnforceReturn ==
    /\ pc = "gac_enforce"
    /\ cursor = Idle
    /\ Len(constraints) = 0
    /\ enforced' = "OK"
    /\ pc' = "enforced"
    /\ UNCHANGED <<puzzle, api, restores, curdom, value, undoDict, unassignedvars, stack, constraints,
                   cursor, sol_found, solution>>

-----------------------------------------------------------------------------
(* CSP.gac *)

\* complete assignment: the fleet check decides;
\* GacTerminal_best_effort records the grid of a rejected assignment as well;
\* GacTerminal_accepts declares success without asking the fleet check
GacTerminal_accepts ==
    /\ pc = "gac"
    /\ Len(unassignedvars) = 0
    /\ sol_found' = TRUE
    /\ solution' = solution \o convert_to_str(implement_assignment(value))
    /\ pc' = "return"
    /\ UNCHANGED <<puzzle, api, restores, curdom, value, undoDict, unassignedvars, stack, constraints,
                   cursor, enforced>>
GacTerminal_best_effort ==
    /\ pc = "gac"
    /\ Len(unassignedvars) = 0
    /\ LET try_it == check_ship_constraints(value)
       IN  /\ sol_found' = try_it[1]
           /\ solution' = solution \o convert_to_str(implement_assignment(value))
    /\ pc' = "return"
    /\ UNCHANGED <<puzzle, api, restores, curdom, value, undoDict, unassignedvars, stack, constraints,
                   cursor, enforced>>
GacTerminal ==
    /\ pc = "gac"
    /\ Len(unassignedvars) = 0
    /\ LET try_it == check_ship_constraints(value)
       IN  /\ sol_found' = try_it[1]
           /\ solution' = IF try_it[1] THEN solution \o try_it[2] ELSE solution
    /\ pc' = "return"
    /\ UNCHANGED <<puzzle, api, restores, curdom, value, undoDict, unassignedvars, stack, constraints,
                   cursor, enforced>>

\* var = unassignedvars.pop(); for val in var.curDomain():
GacSelect ==
    /\ pc = "gac"
    /\ Len(unassignedvars) > 0
    /\ LET var == unassignedvars[Len(unassignedvars)]
       IN  stack' = Append(stack, [var |-> var, vals |-> curDomain(var), idx |-> 1,
                                   pre |-> curdom,
                                   entry |-> [value |-> value, curdom |-> curdom,
                                              unassignedvars |-> unassignedvars,
                                              undoDict |-> undoDict]])
    /\ unassignedvars' = SubSeq(unassignedvars, 1, Len(unassignedvars) - 1)
    /\ pc' = "loop"
    /\ UNCHANGED <<puzzle, api, restores, curdom, value, undoDict, constraints, cursor, enforced,
                   sol_found, solution>>

\* the history of a pair: one more assignment; one more restoreValues call, which
\* found the key in the ledger or missed it
Assigned(h, key) ==
    [k \in (DOMAIN h) \cup {key} |->
        IF k = key THEN [assigned |-> (IF key \in DOMAIN h THEN h[key].assigned ELSE 0) + 1,
                         restored |-> IF key \in DOMAIN h THEN h[key].restored ELSE 0,
                         missed |-> IF key \in DOMAIN h THEN h[key].missed ELSE 0]
        ELSE h[k]]
Restored(h, key, ud) ==
    [h EXCEPT ![key].restored = @ + 1,
              ![key].missed = IF key \in DOMAIN ud THEN @ ELSE @ + 1]

setValue(val, var, x) == IF x # None /\ x \notin AsSet(dom[var]) THEN val ELSE [val EXCEPT ![var] = x]

\* var.setValue(val); gac_enforce(constraintsOf(var), var, val) is entered
GacAssign ==
    /\ pc = "loop"
    /\ Top.idx <= Len(Top.vals)
    /\ value' = setValue(value, assignedvar, assignedval)
    /\ constraints' = constraintsOf(assignedvar)
    /\ cursor' = Idle
    /\ stack' = [stack EXCEPT ![Len(stack)].pre = curdom]
    /\ restores' = Assigned(restores, <<assignedvar, assignedval>>)
    /\ pc' = "gac_enforce"
    /\ UNCHANGED <<puzzle, api, curdom, undoDict, unassignedvars, enforced, sol_found, solution>>

\* gac_enforce has returned: recurse when there was no wipeout, else restore and go on
GacEnforced ==
    /\ pc = "enforced"
    /\ IF enforced = "DWO"
       THEN /\ curdom' = restoreValues_curdom(curdom, undoDict, assignedvar, assignedval)
            /\ undoDict' = restoreValues_undo(undoDict, assignedvar, assignedval)
            /\ stack' = [stack EXCEPT ![Len(stack)].idx = @ + 1]
            /\ restores' = Restored(restores, <<assignedvar, assignedval>>, undoDict)
            /\ pc' = "loop"
       ELSE /\ pc' = "gac"
            /\ UNCHANGED <<curdom, undoDict, stack, restores>>
    /\ UNCHANGED <<puzzle, api, value, unassignedvars, constraints, cursor, enforced,
                   sol_found, solution>>

\* the recursive call returned True: return True;
\* GacFound_goes_on treats a True like a False and tries the next value
GacFound_goes_on ==
    /\ pc = "return"
    /\ Len(stack) > 0
    /\ sol_found = TRUE
    /\ curdom' = restoreValues_curdom(curdom, undoDict, assignedvar, assignedval)
    /\ undoDict' = restoreValues_undo(undoDict, assignedvar, assignedval)
    /\ stack' = [stack EXCEPT ![Len(stack)].idx = @ + 1]
    /\ restores' = Restored(restores, <<assignedvar, assignedval>>, undoDict)
    /\ pc' = "loop"
    /\ UNCHANGED <<puzzle, api, value, unassignedvars, constraints, cursor, enforced,
                   sol_found, solution>>
GacFound ==
    /\ pc = "return"
    /\ Len(stack) > 0
    /\ sol_found = TRUE
    /\ stack' = SubSeq(stack, 1, Len(stack) - 1)
    /\ UNCHANGED <<puzzle, api, restores, curdom, value, undoDict, unassignedvars, pc, constraints, cursor,
                   enforced, sol_found, solution>>

\* the recursive call returned False: var.restoreValues(var, val), next value
GacRestore ==
    /\ pc = "return"
    /\ Len(stack) > 0
    /\ sol_found = FALSE
    /\ curdom' = restoreValues_curdom(curdom, undoDict, assignedvar, assignedval)
    /\ undoDict' = restoreValues_undo(undoDict, assignedvar, assignedval)
    /\ stack' = [stack EXCEPT ![Len(stack)].idx = @ + 1]
    /\ restores' = Restored(restores, <<assignedvar, assignedval>>, undoDict)
    /\ pc' = "loop"
    /\ UNCHANGED <<puzzle, api, value, unassignedvars, constraints, cursor, enforced,
                   sol_found, solution>>

\* the values are exhausted: unassign, push the variable back, return False;
\* GacExhausted_keeps_value returns without the unAssign
GacExhausted_keeps_value ==
    /\ pc = "loop"
    /\ Top.idx > Len(Top.vals)
    /\ unassignedvars' = Append(unassignedvars, Top.var)
    /\ stack' = SubSeq(stack, 1, Len(stack) - 1)
    /\ sol_found' = FALSE
    /\ pc' = "return"
    /\ UNCHANGED <<puzzle, api, restores, value, curdom, undoDict, constraints, cursor, enforced,
                   solution>>
GacExhausted ==
    /\ pc = "loop"
    /\ Top.idx > Len(Top.vals)
    /\ value' = setValue(value, Top.var, None)
    /\ unassignedvars' = Append(unassignedvars, Top.var)
    /\ stack' = SubSeq(stack, 1, Len(stack) - 1)
    /\ sol_found' = FALSE
    /\ pc' = "return"
    /\ UNCHANGED <<puzzle, api, restores, curdom, undoDict, constraints, cursor, enforced, solution>>

\* __main__: the outermost call returned; csp.solution is written to the output file
Finish ==
    /\ pc = "return"
    /\ Len(stack) = 0
    /\ pc' = "done"
    /\ UNCHANGED <<puzzle, api, restores, curdom, value, undoDict, unassignedvars, stack, constraints,
                   cursor, enforced, sol_found, solution>>

Next ==
    \/ EnforcePop
    \/ EnforceValue
    \/ EnforceReturn
    \/ GacTerminal
    \/ GacSelect
    \/ GacAssign
    \/ GacEnforced
    \/ GacFound
    \/ GacRestore
    \/ GacExhausted
    \/ Finish

Spec == Init /\ [][Next]_vars

\* The interpreter runs the one thread of the program until it ends: no step that
\* can be taken is put off for ever.  For the two steps that call the support
\* search and the fleet check the enabling condition of weak fairness is written
\* out: the loop body is enabled exactly while the cursor stands on a value, and
\* every pass moves the cursor or shrinks a working set; the terminal check is
\* enabled exactly at a complete assignment, and it leaves that position.
Light ==
    \/ EnforcePop
    \/ EnforceReturn
    \/ GacSelect
    \/ GacAssign
    \/ GacEnforced
    \/ GacFound
    \/ GacRestore
    \/ GacExhausted
    \/ Finish
Fairness ==
    /\ WF_vars(Light)
    /\ ([]<>~(pc = "gac_enforce" /\ cursor # Idle) \/ []<><<EnforceValue>>_vars)
    /\ []<>~(pc = "gac" /\ Len(unassignedvars) = 0)
SpecLive == Init /\ [][Next]_vars /\ Fairness

-----------------------------------------------------------------------------
(* Direct calls of the Variable, Constraint and CSP methods on a loaded CSP.
   result records what the caller observes of the last call: the value
   returned (ret), the exception that left the call (raised, "none" when the
   call returned) and whether an error or warning message was printed. *)

MaxCalls == 2     \* direct calls made in one behaviour

Foreign == NCells                      \* a Variable object that is not in csp.variables()
ApiCells == {0, Dim + 1}               \* the variables the calls are made on
ApiValues == {"S", ".", "M"}           \* "M" is in no variable's domain
ApiReasons == {<<0, "S">>, <<Dim + 1, "S">>}

\* the puzzles the calls are made on: two ship cells asked for, one per line, no hints
ApiTargets == {t \in Targets : SumTo(t, Dim - 1) = Dim - 1 /\ \A i \in Lines : t[i] <= 1}

InitAPI ==
    \E rc \in ApiTargets, cc \in ApiTargets :
      \E sc \in Fleets(rc) :
        LET board == precondition_state(NoHints, rc, cc)
        IN  /\ row_constraints = rc
            /\ col_constraints = cc
            /\ ship_constraints = sc
            /\ hints = NoHints
            /\ dom = [k \in Cells |-> init_domain(board[k])]
            /\ curdom = [k \in Cells |-> init_domain(board[k])]
            /\ curdom_size = [k \in Cells |-> Len(init_domain(board[k]))]
            /\ value = [k \in Cells |-> init_value(board[k])]
            /\ undoDict = NoLedger
            /\ unassignedvars = SelectSeq(variables, LAMBDA k : init_value(board[k]) = None)
            /\ stack = <<>>
            /\ pc = "api"
            /\ constraints = <<>>
            /\ cursor = Idle
            /\ enforced = "none"
            /\ sol_found = FALSE
            /\ solution = <<>>
            /\ restores = NoLedger
            /\ result = NoResult
            /\ calls = 0

\* what the search and the loader own: no direct call writes it
search == <<unassignedvars, stack, pc, constraints, cursor, enforced, sol_found, solution,
            restores>>

\* Variable.setValue prints an error when the value is neither None nor in _dom
setValue_printed(var, x) == x # None /\ x \notin AsSet(dom[var])

\* var.setValue(x)
CallSetValue ==
    /\ pc = "api" /\ calls < MaxCalls
    /\ \E v \in ApiCells, x \in ApiValues \cup {None} :
          /\ value' = setValue(value, v, x)
          /\ result' = [op |-> "setValue", var |-> v, val |-> x, raised |-> "none",
                        printed |-> setValue_printed(v, x), ret |-> None]
    /\ calls' = calls + 1
    /\ UNCHANGED <<puzzle, search, curdom, undoDict>>

\* Variable.pruneValue prints an error when list.remove raises
pruneValue_printed(cd, v, x) == x \notin AsSet(cd[v])

\* var.pruneValue(x, reasonVar, reasonVal)
CallPruneValue ==
    /\ pc = "api" /\ calls < MaxCalls
    /\ \E v \in ApiCells, x \in ApiValues, reason \in ApiReasons :
          /\ curdom' = pruneValue_curdom(curdom, v, x)
          /\ undoDict' = pruneValue_undo(undoDict, v, x, reason[1], reason[2])
          /\ result' = [op |-> "pruneValue", var |-> v, val |-> x, reason |-> reason,
                        raised |-> "none", printed |-> pruneValue_printed(curdom, v, x),
                        ret |-> None]
    /\ calls' = calls + 1
    /\ UNCHANGED <<puzzle, search, value>>

\* Variable.restoreValues(reasonVar, reasonVal)
CallRestoreValues ==
    /\ pc = "api" /\ calls < MaxCalls
    /\ \E reason \in ApiReasons :
          /\ curdom' = restoreValues_curdom(curdom, undoDict, reason[1], reason[2])
          /\ undoDict' = restoreValues_undo(undoDict, reason[1], reason[2])
          /\ result' = [op |-> "restoreValues", reason |-> reason, raised |-> "none",
                        printed |-> FALSE, ret |-> None]
    /\ calls' = calls + 1
    /\ UNCHANGED <<puzzle, search, value>>

\* CSP.constraintsOf: the index lookup raises for a foreign variable, the except
\* clause prints an error and the method falls off its end, returning None
constraintsOf_call(v) ==
    IF v \in Cells
    THEN [raised |-> "none", printed |-> FALSE, ret |-> constraintsOf(v)]
    ELSE [raised |-> "none", printed |-> TRUE, ret |-> None]

\* csp.constraintsOf(var)
CallConstraintsOf ==
    /\ pc = "api" /\ calls < MaxCalls
    /\ \E v \in ApiCells \cup {Foreign} :
          result' = [op |-> "constraintsOf", var |-> v] @@ constraintsOf_call(v)
    /\ calls' = calls + 1
    /\ UNCHANGED <<puzzle, search, value, curdom, undoDict>>

\* the variable lists and constraint lists a CSP is constructed from
ApiVarLists == {variables, Tail(variables), Append(variables, Foreign)}
ApiConsLists == {conslist, WaterFrom(0), <<>>}

varsInCnst(cs) == UNION {AsSet(cs[i].scope) : i \in 1 .. Len(cs)}

\* CSP.__init__: a variable of the list that is in no scope draws a warning, a
\* scope variable that is not in the list draws an error message and then makes
\* variables.index(v) raise ValueError
CSP_init(vs, cs) ==
    [warned  |-> \E v \in AsSet(vs) : v \notin varsInCnst(cs),
     printed |-> \E v \in varsInCnst(cs) : v \notin AsSet(vs),
     raised  |-> IF \E v \in varsInCnst(cs) : v \notin AsSet(vs) THEN "ValueError" ELSE "none"]

\* CSP(name, variables, constraints)
CallCSP ==
    /\ pc = "api" /\ calls < MaxCalls
    /\ \E vs \in ApiVarLists, cs \in ApiConsLists :
          result' = [op |-> "CSP", variables |-> vs, constraints |-> cs, ret |-> None]
                        @@ CSP_init(vs, cs)
    /\ calls' = calls + 1
    /\ UNCHANGED <<puzzle, search, value, curdom, undoDict>>

\* water_constraints.check with required ['.'], lower bound 1, upper bound 2: True
\* as soon as a scope variable is unassigned, else the count of '.' is within the bounds
water_check(val, sc) ==
    IF \E i \in 1 .. Len(sc) : val[sc[i]] = None THEN TRUE
    ELSE LET rv_count == Cardinality({i \in 1 .. Len(sc) : val[sc[i]] = "."})
         IN  1 <= rv_count /\ 2 >= rv_count

\* c.check() as each class answers it: water_constraints defines check(self);
\* row_constraints defines none and the base class has none, so the attribute
\* lookup raises; col_constraints defines check(self, k), so a call without k raises
check(val, c) ==
    IF conslist[c].kind = "water"
    THEN [raised |-> "none", ret |-> water_check(val, scope(c))]
    ELSE IF conslist[c].kind = "row"
    THEN [raised |-> "AttributeError", ret |-> None]
    ELSE [raised |-> "TypeError", ret |-> None]

\* c.check()
CallConstraintCheck ==
    /\ pc = "api" /\ calls < MaxCalls
    /\ \E c \in ConsIds :
          result' = [op |-> "Constraint.check", c |-> c] @@ check(value, c)
    /\ calls' = calls + 1
    /\ UNCHANGED <<puzzle, search, value, curdom, undoDict>>

\* candidate assignments handed to CSP.check: lists of (variable, value) pairs
AllWater == [k \in Cells |-> "."]
full(g) == [i \in 1 .. NCells |-> <<variables[i], g[variables[i]]>>]
ApiGrids == {AllWater,
             [AllWater EXCEPT ![0] = "S"],
             [AllWater EXCEPT ![0] = "S", ![Dim + 1] = "S"],
             [AllWater EXCEPT ![0] = "M", ![Dim + 1] = "S"]}
ApiCandidates ==
    {full(g) : g \in ApiGrids}
        \cup {Tail(full(AllWater)),
              [full(AllWater) EXCEPT ![NCells] = <<0, ".">>],
              [full(AllWater) EXCEPT ![NCells] = <<Foreign, ".">>]}
ApiSolutions == {<<a>> : a \in ApiCandidates} \cup {<<a, b>> : a, b \in ApiCandidates}

s_vars(s) == [i \in 1 .. Len(s) |-> s[i][1]]

\* the three tests CSP.check makes on a candidate before it applies it
structure(s) ==
    IF Len(s) # Len(variables)
    THEN "Solution has incorrect number of variables in it"
    ELSE IF Cardinality(AsSet(s_vars(s))) # Len(variables)
    THEN "Solution has duplicate variable assignments"
    ELSE IF AsSet(s_vars(s)) # AsSet(variables)
    THEN "Solution has incorrect variable in it"
    ELSE "ok"

\* for (var, val) in s: var.setValue(val)
RECURSIVE applyPairs(_, _)
applyPairs(val, s) ==
    IF Len(s) = 0 THEN val
    ELSE applyPairs(setValue(val, Head(s)[1], Head(s)[2]), Tail(s))

\* for c in self.constraints(): if not c.check(): ... break
RECURSIVE checkFrom(_, _)
checkFrom(val, c) ==
    IF c > Len(conslist) THEN [raised |-> "none", broke |-> 0]
    ELSE IF check(val, c).raised # "none" THEN [raised |-> check(val, c).raised, broke |-> c]
    ELSE IF ~ check(val, c).ret THEN [raised |-> "none", broke |-> c]
    ELSE checkFrom(val, c + 1)

\* the loop over the candidates; it ends early when a check() raises
RECURSIVE checkEach(_, _, _)
checkEach(val, errs, rest) ==
    IF Len(rest) = 0 THEN [raised |-> "none", value |-> val, errs |-> errs]
    ELSE IF structure(Head(rest)) # "ok"
    THEN checkEach(val, Append(errs, [s |-> Head(rest), msg |-> structure(Head(rest)), c |-> 0]),
                   Tail(rest))
    ELSE LET applied == applyPairs(val, Head(rest))
             r == checkFrom(applied, 1)
         IN  IF r.raised # "none" THEN [raised |-> r.raised, value |-> applied, errs |-> errs]
             ELSE IF r.broke # 0
             THEN checkEach(applied,
                            Append(errs, [s |-> Head(rest),
                                          msg |-> "Solution does not satisfy constraint",
                                          c |-> r.broke]),
                            Tail(rest))
             ELSE checkEach(applied, errs, Tail(rest))

\* CSP.check: the values saved at entry are put back only when the loop ran to its end
CSP_check(val, solutions) ==
    LET current_values == [i \in 1 .. NCells |-> <<variables[i], val[variables[i]]>>]
        r == checkEach(val, <<>>, solutions)
    IN  IF r.raised # "none"
        THEN [raised |-> r.raised, value |-> r.value, ret |-> None]
        ELSE [raised |-> "none", value |-> applyPairs(r.value, current_values), ret |-> r.errs]

\* csp.check(solutions)
CallCheck ==
    /\ pc = "api" /\ calls < MaxCalls
    /\ \E solutions \in ApiSolutions :
          LET r == CSP_check(value, solutions)
          IN  /\ value' = r.value
              /\ result' = [op |-> "check", solutions |-> solutions,
                            raised |-> r.raised, ret |-> r.ret]
    /\ calls' = calls + 1
    /\ UNCHANGED <<puzzle, search, curdom, undoDict>>

\* the constraints hasSupport is called on: those of the variables called on
ApiConstraints == {c \in ConsIds : \E v \in ApiCells : InScope(v, c)}

\* the constraint's own _scope after hasSupport: varsToAssign is the copy that
\* scope() hands out, so the remove and the sort of findvals work on the copy.
\* scope_aliased is a scope() that hands out the list itself
scope_aliased(c, var) == IF InScope(var, c) THEN SortDesc(Remove(scope(c), var)) ELSE scope(c)
scope_after(c, var) == scope(c)

\* c.hasSupport(var, val): findvals_ keeps its trial pairs in the list assignment
\* and reads the variables through curDomain(); nothing is assigned or pruned
CallHasSupport ==
    /\ pc = "api" /\ calls < MaxCalls
    /\ \E c \in ApiConstraints, var \in ApiCells, val \in {"S", "."} :
          result' = [op |-> "hasSupport", c |-> c, var |-> var, val |-> val,
                     raised |-> "none", ret |-> hasSupport(c, var, val),
                     scope_after |-> scope_after(c, var)]
    /\ calls' = calls + 1
    /\ UNCHANGED <<puzzle, search, value, curdom, undoDict>>

\* Variable.clearUndoDict(): the body binds a new dict to a local name undoDict;
\* the class attribute Variable.undoDict is not touched
clearUndoDict(ud) == ud

\* Variable.clearUndoDict()
CallClearUndoDict ==
    /\ pc = "api" /\ calls < MaxCalls
    /\ undoDict' = clearUndoDict(undoDict)
    /\ result' = [op |-> "clearUndoDict", raised |-> "none", ret |-> None]
    /\ calls' = calls + 1
    /\ UNCHANGED <<puzzle, search, value, curdom>>

NextAPI ==
    \/ CallSetValue
    \/ CallPruneValue
    \/ CallRestoreValues
    \/ CallConstraintsOf
    \/ CallCSP
    \/ CallConstraintCheck
    \/ CallCheck
    \/ CallHasSupport
    \/ CallClearUndoDict

SpecAPI == InitAPI /\ [][NextAPI]_vars

-----------------------------------------------------------------------------
(* The support functions called on variables in any state the Variable methods
   can leave them in: values assigned or not, working sets shrunk, reordered
   or empty *)

\* what a variable can look like after setValue, pruneValue and restoreValues
CellStates ==
    {[value |-> None, curdom |-> <<"S", ".">>],
     [value |-> None, curdom |-> <<".", "S">>],
     [value |-> None, curdom |-> <<"S">>],
     [value |-> None, curdom |-> <<".">>],
     [value |-> None, curdom |-> <<>>],
     [value |-> "S", curdom |-> <<"S", ".">>],
     [value |-> ".", curdom |-> <<"S", ".">>]}
Fresh == [value |-> None, curdom |-> <<"S", ".">>]

\* the cells after the first of row 0 take any state, the cells of column 0 the
\* same states, the first cell is fresh or assigned; every line has target t
InitFn ==
    \E t \in 0 .. Dim, first \in {Fresh, [value |-> "S", curdom |-> <<"S", ".">>]},
       line \in [1 .. Dim - 1 -> CellStates] :
        LET st == [k \in Cells |->
                      IF k = 0 THEN first
                      ELSE IF RowOf(k) = 0 THEN line[ColOf(k)]
                      ELSE IF ColOf(k) = 0 THEN line[RowOf(k)]
                      ELSE Fresh]
        IN  /\ row_constraints = [i \in Lines |-> t]
            /\ col_constraints = [i \in Lines |-> t]
            /\ ship_constraints = [i \in 1 .. 4 |-> 0]
            /\ hints = NoHints
            /\ dom = [k \in Cells |-> <<"S", ".">>]
            /\ curdom = [k \in Cells |-> st[k].curdom]
            /\ curdom_size = [k \in Cells |-> Len(dom[k])]
            /\ value = [k \in Cells |-> st[k].value]
            /\ undoDict = NoLedger
            /\ unassignedvars = <<>>
            /\ stack = <<>>
            /\ pc = "fn"
            /\ constraints = <<>>
            /\ cursor = Idle
            /\ enforced = "none"
            /\ sol_found = FALSE
            /\ solution = <<>>
            /\ restores = NoLedger
            /\ result = NoResult
            /\ calls = 0

\* the predicates handed to findvals, as data: the tests of the constraint
\* classes and some that no constraint uses
Test(t, l) ==
    IF t.kind = "range" THEN valsOK_range(t.required, t.lb, t.ub, t.n, l)
    ELSE IF t.kind = "any" THEN TRUE
    ELSE IF t.kind = "none" THEN FALSE
    ELSE IF t.kind = "oneShip" THEN NumIn(l, {"S"}) = 1
    ELSE IF t.kind = "atMostOneShip" THEN NumIn(l, {"S"}) <= 1
    ELSE IF t.kind = "lastWater" THEN Len(l) > 0 /\ l[Len(l)][2] = "."
    ELSE Len(l) % 2 = 1

\* findvals_ as the depth-first search it is. finals lists the complete
\* assignments handed to finalTestfn, in the order they were tested
RECURSIVE findvals_dfs(_, _, _, _)
RECURSIVE findvals_for(_, _, _, _, _, _, _, _)
findvals_dfs(remainingVars, assignment, finalT, partialT) ==
    IF Len(remainingVars) = 0
    THEN [ret |-> Test(finalT, assignment), finals |-> <<assignment>>]
    ELSE LET var == remainingVars[Len(remainingVars)]
         IN  findvals_for(SubSeq(remainingVars, 1, Len(remainingVars) - 1), var,
                          curDomain(var), 1, assignment, finalT, partialT, <<>>)

\* for val in var.curDomain(): the loop from its i-th value on
findvals_for(rest, var, d, i, assignment, finalT, partialT, seen) ==
    IF i > Len(d) THEN [ret |-> FALSE, finals |-> seen]
    ELSE IF ~ Test(partialT, Append(assignment, <<var, d[i]>>))
    THEN findvals_for(rest, var, d, i + 1, assignment, finalT, partialT, seen)
    ELSE LET r == findvals_dfs(rest, Append(assignment, <<var, d[i]>>), finalT, partialT)
         IN  IF r.ret THEN [ret |-> TRUE, finals |-> seen \o r.finals]
             ELSE findvals_for(rest, var, d, i + 1, assignment, finalT, partialT,
                               seen \o r.finals)

\* findvals_final_only: a findvals that leaves partialTestfn at its default
findvals_final_only(remainingVars, assignment, finalT, partialT) ==
    findvals_dfs(SortDesc(remainingVars), assignment, finalT, [kind |-> "any"])
\* findvals: sort, then search
findvals_call(remainingVars, assignment, finalT, partialT) ==
    findvals_dfs(SortDesc(remainingVars), assignment, finalT, partialT)

\* hasSupport of a count-range constraint over the scope sc
NValues_hasSupport(sc, required, lb, ub, var, val) ==
    IF var \notin AsSet(sc) THEN TRUE
    ELSE LET t == [kind |-> "range", required |-> required, lb |-> lb, ub |-> ub,
                   n |-> Len(sc)]
         IN  findvals_call(Remove(sc, var), << <<var, val>> >>, t, t).ret

\* the constraints of the first cell, asked about it and about the middle cell
FnConstraints == {c \in ConsIds : InScope(0, c)}
FnCells == {0, Dim + 1}

\* c.hasSupport(var, val) on a row, column and water constraint of the puzzle CSP
FnHasSupport ==
    /\ pc = "fn" /\ calls = 0
    /\ \E c \in FnConstraints, var \in FnCells, val \in {"S", "."} :
          result' = [op |-> "hasSupport", c |-> c, var |-> var, val |-> val,
                     raised |-> "none", ret |-> hasSupport(c, var, val)]
    /\ calls' = calls + 1
    /\ UNCHANGED <<puzzle, search, value, curdom, undoDict>>

\* count-range constraints: scopes, required values and bounds
FnScopes == {RowScope(0), <<0, 1>>, <<1>>}
FnRequired == {{"."}, {"S"}, {"S", "."}}

\* NValuesConstraint(name, scope, required, lb, ub).hasSupport(var, val)
FnNValues ==
    /\ pc = "fn" /\ calls = 0
    /\ \E sc \in FnScopes, required \in FnRequired, lb \in 0 .. Dim, ub \in 0 .. Dim,
          var \in {1, Dim + 1}, val \in {"S", "."} :
          result' = [op |-> "NValues.hasSupport", scope |-> sc, required |-> required,
                     lb |-> lb, ub |-> ub, var |-> var, val |-> val, raised |-> "none",
                     ret |-> NValues_hasSupport(sc, required, lb, ub, var, val)]
    /\ calls' = calls + 1
    /\ UNCHANGED <<puzzle, search, value, curdom, undoDict>>

\* Variable.inCurDomain; inCurDomain_listed looks at the working set even when
\* the variable is assigned
inCurDomain_listed(v, x) == x \in AsSet(curdom[v])
inCurDomain(v, x) == IF isAssigned(v) THEN x = value[v] ELSE x \in AsSet(curdom[v])

\* list.index(x): the first position of x
index(sc, x) == CHOOSE i \in 1 .. Len(sc) : sc[i] = x /\ \A j \in 1 .. i - 1 : sc[j] # x

\* TableConstraint.hasSupport: the loop over satAssignments
RECURSIVE Table_scan(_, _, _, _)
Table_scan(sc, satAssignments, vindex, val) ==
    IF Len(satAssignments) = 0 THEN FALSE
    ELSE IF Head(satAssignments)[vindex] # val
    THEN Table_scan(sc, Tail(satAssignments), vindex, val)
    ELSE IF \A i \in 1 .. Len(sc) : i = vindex \/ inCurDomain(sc[i], Head(satAssignments)[i])
    THEN TRUE
    ELSE Table_scan(sc, Tail(satAssignments), vindex, val)

Table_hasSupport(sc, satAssignments, var, val) ==
    IF var \notin AsSet(sc) THEN TRUE
    ELSE Table_scan(sc, satAssignments, index(sc, var), val)

\* table constraints: scopes of two variables and lists of satisfying tuples
FnTableScopes == {<<1, 2>>, <<2, 1>>, <<0, 1>>}
FnTables ==
    {<<>>,
     << <<"S", "S">> >>,
     << <<".", ".">> >>,
     << <<"S", ".">>, <<".", "S">> >>,
     << <<".", "S">>, <<"S", "S">> >>,
     << <<"S", "S">>, <<"S", ".">>, <<".", "S">>, <<".", ".">> >>}

\* TableConstraint(name, scope, satisfyingAssignments).hasSupport(var, val)
FnTable ==
    /\ pc = "fn" /\ calls = 0
    /\ \E sc \in FnTableScopes, sat \in FnTables, var \in {1, Dim + 1}, val \in {"S", "."} :
          result' = [op |-> "Table.hasSupport", scope |-> sc, satAssignments |-> sat,
                     var |-> var, val |-> val, raised |-> "none",
                     ret |-> Table_hasSupport(sc, sat, var, val)]
    /\ calls' = calls + 1
    /\ UNCHANGED <<puzzle, search, value, curdom, undoDict>>

\* findvals: lists of remaining variables, seeds and predicates
FnRemaining == {<<>>, <<1>>, <<1, 2>>, <<2, 1>>, RowScope(0)}
FnSeeds == {<<>>, << <<Dim + 1, "S">> >>}
FnTests == {[kind |-> k] : k \in {"any", "none", "oneShip", "atMostOneShip",
                                           "lastWater", "oddLength"}}

\* findvals(remainingVars, assignment, finalTestfn, partialTestfn)
FnFindvals ==
    /\ pc = "fn" /\ calls = 0
    /\ \E rem \in FnRemaining, seed \in FnSeeds, finalT \in FnTests, partialT \in FnTests :
          result' = [op |-> "findvals", remainingVars |-> rem, assignment |-> seed,
                     finalT |-> finalT, partialT |-> partialT, raised |-> "none"]
                        @@ findvals_call(rem, seed, finalT, partialT)
    /\ calls' = calls + 1
    /\ UNCHANGED <<puzzle, search, value, curdom, undoDict>>

NextFn ==
    \/ FnHasSupport
    \/ FnNValues
    \/ FnTable
    \/ FnFindvals

SpecFn == InitFn /\ [][NextFn]_vars

-----------------------------------------------------------------------------
(* The puzzle's rules, stated on grids (cell -> "S" or "."), for the properties *)

Success == sol_found = TRUE

\* the grid the solver recorded: the characters of CSP.solution, line by line
RecordedChar(k) == solution[RowOf(k) * (Dim + 1) + ColOf(k) + 1]
RecordedGrid == [k \in Cells |-> IF RecordedChar(k) \in ShipChars THEN "S" ELSE "."]

\* the grid of the assigned values
ValueGrid == [k \in Cells |-> IF value[k] = "S" THEN "S" ELSE "."]
FullyAssigned == \A k \in Cells : value[k] # None

Ship(g, i, j) == i \in Lines /\ j \in Lines /\ g[V(i, j)] = "S"
RowCount(g, i) == Cardinality({j \in Lines : Ship(g, i, j)})
ColCount(g, j) == Cardinality({i \in Lines : Ship(g, i, j)})
RowsExact(g) == \A i \in Lines : RowCount(g, i) = row_constraints[i]
ColsExact(g) == \A j \in Lines : ColCount(g, j) = col_constraints[j]
NoDiagonalTouch(g) == \A k \in Cells : \A d \in Diagonals(k) : ~(g[k] = "S" /\ g[d] = "S")

\* length of the horizontal (vertical) run of ship cells that starts at (i, j)
RECURSIVE RunRight(_, _, _)
RunRight(g, i, j) == IF Ship(g, i, j) THEN 1 + RunRight(g, i, j + 1) ELSE 0
RECURSIVE RunDown(_, _, _)
RunDown(g, i, j) == IF Ship(g, i, j) THEN 1 + RunDown(g, i + 1, j) ELSE 0

HStart(g, i, j) == Ship(g, i, j) /\ ~Ship(g, i, j - 1)
VStart(g, i, j) == Ship(g, i, j) /\ ~Ship(g, i - 1, j)
Alone(g, i, j) ==
    /\ Ship(g, i, j)
    /\ ~Ship(g, i, j - 1) /\ ~Ship(g, i, j + 1)
    /\ ~Ship(g, i - 1, j) /\ ~Ship(g, i + 1, j)

\* number of maximal straight runs of exactly n >= 2 cells; number of single cells
ShipsOfSize(g, n) ==
    Cardinality({k \in Cells : HStart(g, RowOf(k), ColOf(k)) /\ RunRight(g, RowOf(k), ColOf(k)) = n})
    + Cardinality({k \in Cells : VStart(g, RowOf(k), ColOf(k)) /\ RunDown(g, RowOf(k), ColOf(k)) = n})
Submarines(g) == Cardinality({k \in Cells : Alone(g, RowOf(k), ColOf(k))})
FleetOf(g) == <<Submarines(g), ShipsOfSize(g, 2), ShipsOfSize(g, 3), ShipsOfSize(g, 4)>>
NoLongRun(g) ==
    \A k \in Cells : RunRight(g, RowOf(k), ColOf(k)) <= 4 /\ RunDown(g, RowOf(k), ColOf(k)) <= 4

\* the character a finished grid shows at (i, j)
Marker(g, i, j) ==
    IF ~Ship(g, i, j) THEN "."
    ELSE IF Ship(g, i, j - 1) /\ Ship(g, i, j + 1) THEN "M"
    ELSE IF Ship(g, i - 1, j) /\ Ship(g, i + 1, j) THEN "M"
    ELSE IF Ship(g, i, j + 1) THEN "<"
    ELSE IF Ship(g, i, j - 1) THEN ">"
    ELSE IF Ship(g, i + 1, j) THEN "^"
    ELSE IF Ship(g, i - 1, j) THEN "v"
    ELSE "S"
Render(g) ==
    [p \in 1 .. Dim * (Dim + 1) |->
        IF p % (Dim + 1) = 0 THEN NL
        ELSE Marker(g, (p - 1) \div (Dim + 1), (p - 1) % (Dim + 1))]
HintsKept(g) == \A k \in Cells : hints[k] # "0" => Marker(g, RowOf(k), ColOf(k)) = hints[k]

IsSolution(g) ==
    /\ RowsExact(g)
    /\ ColsExact(g)
    /\ NoDiagonalTouch(g)
    /\ NoLongRun(g)
    /\ FleetOf(g) = ship_constraints
    /\ HintsKept(g)

\* only cells of lines with a non-zero target can hold a ship in a solution
OpenCells == {k \in Cells : row_constraints[RowOf(k)] > 0 /\ col_constraints[ColOf(k)] > 0}
Solutions == {g \in {[k \in Cells |-> IF k \in G THEN "S" ELSE "."] : G \in SUBSET OpenCells} :
                IsSolution(g)}

-----------------------------------------------------------------------------
(* C1: whenever the solver reports success, every row and every column of the
   recorded grid holds exactly its target number of ship cells. *)
C1_RowColExact == Success => RowsExact(RecordedGrid) /\ ColsExact(RecordedGrid)

(* C2: whenever the solver reports success, no two diagonally adjacent cells
   of the recorded grid are both ship cells. *)
C2_NoDiagonalShips == Success => NoDiagonalTouch(RecordedGrid)

\* a success whose grid has a ship cell next to a diagonal neighbour the search decided
C2_Witness ==
    /\ Success
    /\ \E k \in Cells : \E d \in Diagonals(k) :
          RecordedGrid[k] = "S" /\ Len(dom[k]) = 2 /\ Len(dom[d]) = 2

(* C3: success is declared only on a full assignment whose numbers of 1-, 2-,
   3- and 4-cell ships (maximal straight runs) equal the fleet vector; at the
   terminal step a full assignment that keeps every row, column and adjacency
   rule but has other ship counts returns failure and records nothing, and the
   caller then restores and moves on to its next value. *)
AtTerminal == pc = "gac" /\ Len(unassignedvars) = 0
LocallyValid(g) == RowsExact(g) /\ ColsExact(g) /\ NoDiagonalTouch(g)
C3_FleetGate ==
    [][ /\ (AtTerminal /\ sol_found' = TRUE) =>
              FullyAssigned /\ FleetOf(ValueGrid) = ship_constraints
        /\ (AtTerminal /\ FullyAssigned /\ LocallyValid(ValueGrid)
               /\ FleetOf(ValueGrid) # ship_constraints) =>
              sol_found' = FALSE /\ solution' = solution /\ pc' = "return"
        /\ (pc = "return" /\ sol_found = FALSE /\ Len(stack) > 0) =>
              /\ pc' = "loop"
              /\ stack' = [stack EXCEPT ![Len(stack)].idx = @ + 1]
              /\ solution' = solution
      ]_vars

\* the search has just backed off a full, locally valid grid with the wrong fleet
C3_Witness ==
    /\ pc = "return" /\ sol_found = FALSE
    /\ Len(unassignedvars) = 0 /\ Len(stack) > 0
    /\ FullyAssigned /\ LocallyValid(ValueGrid)
    /\ FleetOf(ValueGrid) # ship_constraints

(* C4: when exactly one grid satisfies the row targets, the column targets,
   the no-touching rule, the fleet composition and the hints, the solver
   reports success and records exactly that grid. *)
C4_UniqueSolutionFound ==
    (pc = "done" /\ Cardinality(Solutions) = 1) =>
        Success /\ \A g \in Solutions : solution = Render(g)

(* C5: when the row targets and the column targets sum to different totals,
   the search returns failure and no grid is recorded. *)
Sum(t) == SumTo(t, Dim - 1)
C5_OverConstrainedFails ==
    (pc = "done" /\ Sum(row_constraints) # Sum(col_constraints)) =>
        sol_found = FALSE /\ solution = <<>>

(* C6: when the search ends without success the recorded solution is empty;
   a grid is recorded only by a successful terminal check and is then complete. *)
C6_FailureRecordsNothing ==
    /\ (pc = "done" /\ sol_found = FALSE) => solution = <<>>
    /\ solution # <<>> => Success /\ Len(solution) = Dim * (Dim + 1)

\* a failed run that had reached full assignments on the way
C6_Witness ==
    /\ pc = "done" /\ sol_found = FALSE /\ solution = <<>>
    /\ \E k \in Cells : Len(dom[k]) = 2 /\ Len(curdom[k]) = 2 /\ curdom[k] # dom[k]

(* C7: after gac_enforce returns OK, for every constraint c and every variable
   v in c's scope, every value still in v's working set has support in c. *)
EnforcedOK == pc = "enforced" /\ enforced = "OK"
Supported(c) ==
    \A i \in 1 .. arity(c) : \A x \in AsSet(curdom[scope(c)[i]]) : hasSupport(c, scope(c)[i], x)
C7_ArcConsistentAfterOK == EnforcedOK => \A c \in ConsIds : Supported(c)

(* C8: in gac_enforce, the step whose prune leaves a working set empty makes
   the call return DWO at once. *)
C8_WipeoutReported ==
    [][ (pc = "gac_enforce" /\ \E v \in Cells : curdom[v] # <<>> /\ curdom'[v] = <<>>) =>
            (pc' = "enforced" /\ enforced' = "DWO") ]_vars

(* C9: when the search restores the prunings of an assignment (var, val) after
   its propagation round, every working set holds, as a set, what it held just
   before that round. *)
Restoring == \/ pc = "return" /\ sol_found = FALSE /\ Len(stack) > 0
             \/ pc = "enforced" /\ enforced = "DWO"
C9_RestoreGivesBack ==
    [][ (Restoring /\ pc' = "loop") =>
            \A v \in Cells : AsSet(curdom'[v]) = AsSet(Top.pre[v]) ]_vars

\* a restore has just put back values that the round had pruned
C9_Witness ==
    /\ pc = "loop" /\ Len(stack) > 0 /\ Top.idx > 1
    /\ \E v \in Cells : curdom[v] # Top.pre[v] /\ AsSet(curdom[v]) = AsSet(Top.pre[v])

(* C10: within one gac_enforce call no working set grows: every step leaves
   each working set equal to, or a strict subset of, what it was. *)
C10_RoundOnlyShrinks ==
    [][ pc = "gac_enforce" =>
            \A v \in Cells : /\ AsSet(curdom'[v]) \subseteq AsSet(curdom[v])
                             /\ Len(curdom'[v]) <= Len(curdom[v]) ]_vars

\* in the middle of a round that has already pruned from two variables
C10_Witness ==
    /\ pc = "gac_enforce"
    /\ Cardinality({v \in Cells : Len(curdom[v]) < Len(Top.pre[v])}) >= 2

(* C11: a reason key enters the undo ledger only under the pair (var, val)
   that is currently assigned; before the pair is assigned again restoreValues
   has been called for it exactly once per earlier assignment, and right after
   that call the key is absent from the ledger. *)
KeyOfTop == <<assignedvar, assignedval>>
C11_OneRestorePerKey ==
    [][ /\ \A k \in (DOMAIN undoDict') \ (DOMAIN undoDict) :
              pc = "gac_enforce" /\ k = KeyOfTop
        /\ \A k \in DOMAIN restores' :
              /\ restores'[k].restored <= restores'[k].assigned
              /\ restores'[k].assigned <= restores'[k].restored + 1
        /\ (pc = "loop" /\ pc' = "gac_enforce") =>
              /\ KeyOfTop \notin DOMAIN undoDict
              /\ KeyOfTop \in DOMAIN restores =>
                    restores[KeyOfTop].restored = restores[KeyOfTop].assigned
        /\ (Restoring /\ pc' = "loop") =>
              /\ KeyOfTop \notin DOMAIN undoDict'
              /\ restores'[KeyOfTop].restored = restores[KeyOfTop].restored + 1
      ]_vars

\* a pair that was assigned, restored and assigned again, with prunes recorded under it anew
C11_Witness ==
    \E k \in DOMAIN restores :
        /\ restores[k].assigned >= 2 /\ restores[k].restored = restores[k].assigned - 1
        /\ k \in DOMAIN undoDict

(* C17 as the code has it: restoreValues under a reason key that is not in the
   undo ledger returns normally; no working set, no value and no ledger entry
   changes, and the caller goes on with its next value. *)
C17_AbsentKeyIsNoOp ==
    [][ (Restoring /\ KeyOfTop \notin DOMAIN undoDict) =>
            /\ pc' = "loop"
            /\ curdom' = curdom /\ undoDict' = undoDict /\ value' = value
            /\ stack' = [stack EXCEPT ![Len(stack)].idx = @ + 1]
      ]_vars

\* the search is back in its value loop after a restoreValues call that found no key
C17_Witness ==
    /\ pc = "loop" /\ Len(stack) > 0 /\ Top.idx > 1
    /\ restores[<<Top.var, Top.vals[Top.idx - 1]>>].missed >= 1

(* C17 as stated: restoreValues under a reason key that is not in the undo
   ledger aborts; the run does not go on as if nothing had happened. *)
C17_AbsentKeyAborts ==
    [][ (Restoring /\ KeyOfTop \notin DOMAIN undoDict) => pc' # "loop" ]_vars

\* when the step just taken was a direct call of the named method
Called(op) == calls' = calls + 1 /\ result'.op = op

(* C15: setValue with a value outside the variable's original domain fails with
   DomainError and leaves the assigned value unchanged; with a value of the
   domain it sets the assigned value and leaves the working set unchanged. *)
C15_SetValueDomainError ==
    [][ (Called("setValue") /\ result'.val # None) =>
            IF result'.val \in AsSet(dom[result'.var])
            THEN /\ result'.raised = "none"
                 /\ value' = [value EXCEPT ![result'.var] = result'.val]
                 /\ curdom' = curdom
            ELSE /\ result'.raised = "DomainError"
                 /\ value' = value ]_vars

(* C16: pruneValue of a value that is not in the working set fails with
   PruneError: the working set is unchanged and no pair is recorded in the
   ledger. *)
C16_PruneAbsentRejected ==
    [][ (Called("pruneValue") /\ result'.val \notin AsSet(curdom[result'.var])) =>
            /\ result'.raised = "PruneError"
            /\ curdom' = curdom
            /\ undoDict' = undoDict ]_vars

(* C18: constraintsOf returns exactly the constraints whose scope contains the
   variable, and for a variable that is not in the CSP it fails with
   UnknownVariableError instead of returning a value. *)
C18_ConstraintsOfExact ==
    [][ Called("constraintsOf") =>
            IF result'.var \in Cells
            THEN /\ result'.raised = "none"
                 /\ AsSet(result'.ret) = {c \in ConsIds : InScope(result'.var, c)}
                 /\ Len(result'.ret) = Cardinality(AsSet(result'.ret))
            ELSE result'.raised = "UnknownVariableError" ]_vars

(* C19: constructing a CSP is rejected when a scope names a variable that is not
   in the variable list, and also when a variable of the list is in no scope; an
   accepted CSP has the two sets equal. *)
C19_ConstructionChecksBothWays ==
    [][ Called("CSP") =>
            LET listed == AsSet(result'.variables)
                scoped == varsInCnst(result'.constraints)
            IN  /\ (~ scoped \subseteq listed) => result'.raised # "none"
                /\ (~ listed \subseteq scoped) => result'.raised # "none"
                /\ result'.raised = "none" => listed = scoped ]_vars

(* C12: CSP.check leaves every variable's assigned value as it was before the
   call, whatever the candidates (rejected ones and ones with values outside a
   domain included), so that the same call made again gives the same result. *)
C12_CheckLeavesValues ==
    [][ Called("check") =>
            /\ value' = value
            /\ CSP_check(value', result'.solutions).raised = result'.raised
            /\ CSP_check(value', result'.solutions).ret = result'.ret ]_vars

\* the grid a complete candidate describes: every value but '.' is a ship part
GridOf(s) == [k \in Cells |-> IF \E i \in 1 .. Len(s) : s[i] = <<k, ".">> THEN "." ELSE "S"]
BreaksARule(s) ==
    \/ structure(s) # "ok"
    \/ ~ NoDiagonalTouch(GridOf(s))
    \/ ~ RowsExact(GridOf(s))
    \/ ~ ColsExact(GridOf(s))

(* C13: CSP.check returns normally with exactly the rejected candidates, in
   order and once each: those with a wrong number of pairs, a variable named
   twice, a variable set other than the CSP's, or values that make some
   constraint false; a structural rejection carries the first failed test. *)
C13_CheckRejectsExactly ==
    [][ Called("check") =>
            /\ result'.raised = "none"
            /\ [i \in 1 .. Len(result'.ret) |-> result'.ret[i].s]
                  = SelectSeq(result'.solutions, BreaksARule)
            /\ \A i \in 1 .. Len(result'.ret) :
                  structure(result'.ret[i].s) # "ok"
                      => result'.ret[i].msg = structure(result'.ret[i].s) ]_vars

\* whether the assigned values of a fully assigned scope satisfy the constraint
ShipParts(c) == Cardinality({i \in 1 .. arity(c) : value[scope(c)[i]] # "."})
Satisfied(c) ==
    IF conslist[c].kind = "water" THEN ShipParts(c) <= 1
    ELSE IF conslist[c].kind = "row" THEN ShipParts(c) = row_constraints[conslist[c].k]
    ELSE ShipParts(c) = col_constraints[conslist[c].k]

(* C14: every constraint variant (row count, column count, adjacency) answers
   check() without arguments: true while a scope variable is unassigned,
   otherwise true exactly when the assigned values satisfy the constraint. *)
C14_EveryVariantChecks ==
    [][ Called("Constraint.check") =>
            /\ result'.raised = "none"
            /\ result'.ret = ((\E i \in 1 .. arity(result'.c) : ~ isAssigned(scope(result'.c)[i]))
                                \/ Satisfied(result'.c)) ]_vars

(* C20: hasSupport(var, val) of every constraint variant leaves unchanged every
   assigned value, every working set, the undo ledger and the constraint's own
   scope order, whatever it returns. *)
C20_HasSupportFrame ==
    [][ Called("hasSupport") =>
            /\ value' = value
            /\ curdom' = curdom
            /\ undoDict' = undoDict
            /\ result'.scope_after = scope(result'.c) ]_vars

\* a support search that failed, on a constraint of the variable, after a prune
\* filled the ledger
C20_Witness ==
    /\ result.op = "hasSupport"
    /\ InScope(result.var, result.c)
    /\ conslist[result.c].kind = "row"
    /\ result.ret = FALSE
    /\ DOMAIN undoDict # {}

(* C27: after Variable.clearUndoDict the ledger holds no reason key, whatever
   entries were in it before. *)
C27_ClearEmptiesLedger ==
    [][ Called("clearUndoDict") => DOMAIN undoDict' = {} ]_vars

(* C30: at the moment the search assigns a variable v the value x the ledger
   holds no entry under the reason key (v, x). *)
C30_NoStaleKeyAtAssign ==
    [][ (pc = "loop" /\ pc' = "gac_enforce") =>
            /\ value'[assignedvar] = assignedval
            /\ <<assignedvar, assignedval>> \notin DOMAIN undoDict
            /\ <<assignedvar, assignedval>> \notin DOMAIN undoDict' ]_vars

\* the pair being assigned was tried before, pruned then, and was restored since
C30_Witness ==
    /\ pc = "gac_enforce"
    /\ restores[KeyOfTop].assigned >= 2
    /\ restores[KeyOfTop].restored > restores[KeyOfTop].missed
    /\ KeyOfTop \notin DOMAIN undoDict

(* C28: the variable the search step takes is an unassigned variable of smallest
   current-domain size among the unassigned ones, the first of them in the
   CSP's variable order on a tie. *)
C28_SmallestDomainFirst ==
    [][ (pc = "gac" /\ pc' = "loop") =>
            LET chosen == stack'[Len(stack')].var
                open == {v \in Cells : ~ isAssigned(v)}
            IN  /\ chosen \in open
                /\ \A v \in open :
                      \/ curDomainSize(chosen) < curDomainSize(v)
                      \/ curDomainSize(chosen) = curDomainSize(v) /\ chosen <= v ]_vars

(* C29: when a call of the search step returns failure, every assigned value,
   every current domain (as a set), the unassigned stack (contents and order)
   and the undo ledger are as they were when that call began. *)
C29_FailureRestoresEntry ==
    [][ /\ (pc = "loop" /\ pc' = "return") =>
              /\ value' = Top.entry.value
              /\ \A v \in Cells : AsSet(curdom'[v]) = AsSet(Top.entry.curdom[v])
              /\ unassignedvars' = Top.entry.unassignedvars
              /\ undoDict' = Top.entry.undoDict
        /\ (pc = "gac" /\ pc' = "return" /\ sol_found' = FALSE) =>
              /\ value' = value
              /\ curdom' = curdom
              /\ unassignedvars' = unassignedvars
              /\ undoDict' = undoDict ]_vars

\* a nested call has just returned failure after its variable's assignments had
\* pruned values, with the caller's prunes still in the ledger
C29_Witness ==
    /\ pc = "return"
    /\ sol_found = FALSE
    /\ Len(stack) > 0
    /\ Len(unassignedvars) > 0
    /\ DOMAIN undoDict # {}
    /\ \E k \in DOMAIN restores :
          /\ k[1] = unassignedvars[Len(unassignedvars)]
          /\ restores[k].restored > restores[k].missed

\* whether the binary constraint c lets its two cells take the values a and b
admits(c, a, b) == valsOK(c, << <<scope(c)[1], a>>, <<scope(c)[2], b>> >>)

\* the binary water constraints over exactly the cells k and d that admit every
\* pair of values but two ship parts
PairConstraints ==
    [k \in Cells |-> [d \in Cells |->
        {c \in ConsIds :
            /\ conslist[c].kind = "water"
            /\ arity(c) = 2
            /\ AsSet(scope(c)) = {k, d}
            /\ \A a, b \in ShipChars \cup {"."} : admits(c, a, b) <=> (a = "." \/ b = ".")}]]

(* C22: for every pair of diagonally adjacent cells the constraint list holds a
   binary constraint over exactly that pair which admits (water, water),
   (ship, water) and (water, ship) and forbids (ship, ship), in the support search and on the
   values currently assigned. *)
C22_DiagonalPairsConstrained ==
    \A k \in Cells : \A d \in Diagonals(k) :
        \E c \in PairConstraints[k][d] :
            water_check(value, scope(c))
                <=> (value[k] \in {None, "."} \/ value[d] \in {None, "."})

\* the propagation is at a diagonal pair whose one cell is assigned a ship: the
\* constraint denies the other cell the ship and grants it water
C22_Witness ==
    /\ pc = "gac_enforce"
    /\ cursor # Idle
    /\ conslist[cursor.c].kind = "water"
    /\ LET var == scope(cursor.c)[cursor.vi]
       IN  /\ \E k \in Diagonals(var) : InScope(k, cursor.c) /\ value[k] = "S"
           /\ value[var] = None
           /\ ~ hasSupport(cursor.c, var, "S")
           /\ hasSupport(cursor.c, var, ".")

\* the ways the variables of the list vs can each take a value of their current
\* domain (their assigned value when assigned); the number of those values in S
Choices(vs) ==
    {ch \in [1 .. Len(vs) -> {"S", "."}] : \A i \in 1 .. Len(vs) : ch[i] \in AsSet(curDomain(vs[i]))}
CountIn(ch, val, S) ==
    Cardinality({i \in DOMAIN ch : ch[i] \in S}) + (IF val \in S THEN 1 ELSE 0)
LineTarget(c) ==
    IF conslist[c].kind = "row" THEN row_constraints[conslist[c].k]
    ELSE col_constraints[conslist[c].k]

(* C21: for the row constraint and the column constraint alike, hasSupport(var,
   val) with var in scope is true exactly when the other cells of the line can
   take values of their current domains that, with var = val, make the number
   of ship cells of the line equal to the target. *)
C21_LineSupportExact ==
    [][ ( /\ Called("hasSupport")
          /\ conslist[result'.c].kind \in {"row", "col"}
          /\ InScope(result'.var, result'.c) ) =>
            result'.ret = (\E ch \in Choices(Remove(scope(result'.c), result'.var)) :
                              CountIn(ch, result'.val, ShipChars) = LineTarget(result'.c)) ]_vars

(* C24: for a count-range constraint (required values, bounds lb and ub),
   hasSupport(var, val) with var in scope is true exactly when the other scope
   variables can take values of their current domains that, with var = val,
   put the number of variables with a required value within [lb, ub]; the water
   constraints of the puzzle are the instance ['.'], 1, 2. *)
C24_CountRangeSupport ==
    [][ /\ (Called("NValues.hasSupport") /\ result'.var \in AsSet(result'.scope)) =>
              result'.ret = (\E ch \in Choices(Remove(result'.scope, result'.var)) :
                                /\ result'.lb <= CountIn(ch, result'.val, result'.required)
                                /\ CountIn(ch, result'.val, result'.required) <= result'.ub)
        /\ ( /\ Called("hasSupport")
             /\ conslist[result'.c].kind = "water"
             /\ InScope(result'.var, result'.c) ) =>
              result'.ret = (\E ch \in Choices(Remove(scope(result'.c), result'.var)) :
                                CountIn(ch, result'.val, {"."}) \in {1, 2}) ]_vars

\* a call on a three-variable scope that found no support although every other
\* variable had a value to offer and the bounds were not empty
C24_Witness ==
    /\ result.op = "NValues.hasSupport"
    /\ Len(result.scope) = Dim
    /\ result.var \in AsSet(result.scope)
    /\ result.lb <= result.ub
    /\ result.lb > 0
    /\ Choices(Remove(result.scope, result.var)) # {}
    /\ result.ret = FALSE

\* the order in which findvals takes the variables (the sorted list from its
\* end) and the assignment built from the first n of them
TakeOrder(rem) == [i \in 1 .. Len(rem) |-> SortDesc(rem)[Len(rem) + 1 - i]]
Built(seed, order, ch, n) == seed \o [i \in 1 .. n |-> <<order[i], ch[i]>>]

(* C23: for any final and partial predicate, findvals returns true exactly when
   one value can be chosen from each remaining variable's current domain so
   that every partial assignment built along the search passes the partial
   predicate and the complete one passes the final predicate; it stops at the
   first such assignment: no complete assignment tested before it passes. *)
C23_FindvalsExists ==
    [][ Called("findvals") =>
            LET order == TakeOrder(result'.remainingVars)
                seed == result'.assignment
            IN  /\ result'.ret =
                      (\E ch \in Choices(order) :
                          /\ \A n \in 1 .. Len(order) :
                                Test(result'.partialT, Built(seed, order, ch, n))
                          /\ Test(result'.finalT, Built(seed, order, ch, Len(order))))
                /\ \A i \in 1 .. Len(result'.finals) :
                      Test(result'.finalT, result'.finals[i])
                          <=> (result'.ret /\ i = Len(result'.finals)) ]_vars

\* a search over a whole line that found its assignment after complete
\* assignments had failed and partial ones had been cut
C23_Witness ==
    /\ result.op = "findvals"
    /\ Len(result.remainingVars) = Dim
    /\ result.partialT.kind = "atMostOneShip"
    /\ result.finalT.kind = "lastWater"
    /\ result.ret = TRUE
    /\ Len(result.finals) >= 2

(* C25: for a table constraint, hasSupport(var, val) with var in scope is true
   exactly when the satisfying set has a tuple that gives var the value val and
   whose value at every other position is in that variable's current domain
   (or is its assigned value when it is assigned). *)
C25_TableSupport ==
    [][ (Called("Table.hasSupport") /\ result'.var \in AsSet(result'.scope)) =>
            result'.ret =
                (\E i \in 1 .. Len(result'.satAssignments) :
                    \A j \in 1 .. Len(result'.scope) :
                        IF result'.scope[j] = result'.var
                        THEN result'.satAssignments[i][j] = result'.val
                        ELSE result'.satAssignments[i][j]
                                \in AsSet(curDomain(result'.scope[j]))) ]_vars

\* no support although a tuple gives var the value and the other variable's
\* working set lists the tuple's value: the other variable is assigned otherwise
C25_Witness ==
    /\ result.op = "Table.hasSupport"
    /\ result.var \in AsSet(result.scope)
    /\ result.ret = FALSE
    /\ \E i \in 1 .. Len(result.satAssignments) : \A j \in 1 .. Len(result.scope) :
          IF result.scope[j] = result.var
          THEN result.satAssignments[i][j] = result.val
          ELSE /\ isAssigned(result.scope[j])
               /\ result.satAssignments[i][j] \in AsSet(curdom[result.scope[j]])

\* the scope of the constraint a hasSupport call was made on
ScopeOfCall(r) == IF r.op = "hasSupport" THEN scope(r.c) ELSE r.scope

(* C26: for every constraint variant (table, count-range, row, column),
   hasSupport(var, val) is true for every val when var is not in the scope,
   whatever the current domains and assignments. *)
C26_VacuousSupport ==
    [][ ( /\ calls' = calls + 1
          /\ result'.op \in {"hasSupport", "NValues.hasSupport", "Table.hasSupport"}
          /\ result'.var \notin AsSet(ScopeOfCall(result')) ) =>
            result'.ret = TRUE ]_vars

\* a call on a line constraint for a variable outside it, while a cell of the
\* line has nothing left in its current domain
C26_Witness ==
    /\ result.op = "hasSupport"
    /\ conslist[result.c].kind \in {"row", "col"}
    /\ ~ InScope(result.var, result.c)
    /\ \E i \in 1 .. arity(result.c) : curDomain(scope(result.c)[i]) = <<>>
    /\ result.ret = TRUE

-----------------------------------------------------------------------------
(* The worklist of gac_enforce *)

Distinct(s) == \A i, j \in 1 .. Len(s) : s[i] = s[j] => i = j
Referencing(v) == {c \in ConsIds : InScope(v, c)}

\* a pass of the loop body that removes a value from the variable under the cursor
Prunes == pc = "gac_enforce" /\ cursor # Idle /\ curdom' # curdom
cursorVar == scope(cursor.c)[cursor.vi]

\* C31: when gac_enforce prunes a value from v while it processes c and v keeps a
\* value, the worklist keeps what it held and gains every constraint referencing v
\* other than c that it did not hold; the worklist never holds a constraint twice
C31_PruneRequeues ==
    [][/\ Distinct(constraints')
       /\ (Prunes /\ Len(curdom'[cursorVar]) > 0) =>
             /\ SubSeq(constraints', 1, Len(constraints)) = constraints
             /\ AsSet(constraints') = AsSet(constraints) \cup (Referencing(cursorVar) \ {cursor.c})]_vars

\* a round in which a pruned variable that kept a value brought a constraint onto
\* the worklist that does not reference the assigned variable
C31_Witness ==
    /\ pc = "gac_enforce"
    /\ <<assignedvar, assignedval>> \in DOMAIN undoDict
    /\ \E i \in 1 .. Len(undoDict[<<assignedvar, assignedval>>]) :
          LET v == undoDict[<<assignedvar, assignedval>>][i][1]
          IN  /\ Len(curdom[v]) > 0
              /\ \E c2 \in AsSet(constraints) : InScope(v, c2) /\ ~ InScope(assignedvar, c2)

\* C32: every gac_enforce call returns: the worklist runs empty or a wipeout is reported
C32_EnforceTerminates == (pc = "gac_enforce") ~> (pc = "enforced")

\* a call that returned after it pruned at least two values
C32_Witness ==
    /\ pc = "enforced"
    /\ <<assignedvar, assignedval>> \in DOMAIN undoDict
    /\ Len(undoDict[<<assignedvar, assignedval>>]) >= 2

-----------------------------------------------------------------------------
(* The working sets during a solve *)

\* C33: in every state of a solve each variable's working set holds no value
\* twice and only values of the variable's domain
C33_WorkingSetsWellFormed ==
    \A v \in Cells : Distinct(curdom[v]) /\ AsSet(curdom[v]) \subseteq AsSet(dom[v])

\* a variable that lost a value to propagation and got it back by a restore: the
\* value now stands behind the one that stayed; meanwhile another search level is
\* open and a third variable's working set is pruned
C33_Witness ==
    /\ Len(stack) >= 2
    /\ \E v \in Cells : dom[v] = <<"S", ".">> /\ curdom[v] = <<".", "S">>
    /\ \E u \in Cells : Len(curdom[u]) < Len(dom[u])

-----------------------------------------------------------------------------
(* Hints *)

Hinted == {k \in Cells : hints[k] # "0"}
OpenLevels == {stack[i].var : i \in 1 .. Len(stack)}

\* C34: a cell that carries a hint is assigned from the start, is never on the
\* unassigned stack and is never picked by a search level; no step changes its
\* value or unassigns it
C34_HintsStayAssigned ==
    [][\A k \in Hinted :
          /\ value[k] # None
          /\ value'[k] = value[k]
          /\ k \notin AsSet(unassignedvars) \cup AsSet(unassignedvars')
          /\ k \notin OpenLevels]_vars

\* a search over a board with a ship hint that assigned, restored and unassigned
\* other cells and ended in failure
C34_Witness ==
    /\ \E k \in Hinted : hints[k] = "S" /\ value[k] = "S"
    /\ pc = "done"
    /\ sol_found = FALSE
    /\ \E key \in DOMAIN restores : restores[key].restored > 0

\* every cell of the board is filled in before the search starts
AllPreassigned ==
    \A k \in Cells : precondition_state(hints, row_constraints, col_constraints)[k] # "0"

\* C35: when every variable is pre-assigned the search assigns nothing and runs no
\* propagation round, and its answer is the answer of the fleet check on the grid
\* it was given
C35_PreassignedGoesToCheck ==
    AllPreassigned =>
        /\ pc \in {"gac", "return", "done"}
        /\ stack = <<>> /\ unassignedvars = <<>>
        /\ restores = NoLedger /\ undoDict = NoLedger
        /\ enforced = "none" /\ constraints = <<>>
        /\ pc \in {"return", "done"} => (sol_found <=> check_ship_constraints(value)[1])

\* a run on a pre-assigned grid with a hint that ended with the check's refusal
C35_Witness ==
    /\ AllPreassigned /\ pc = "done"
    /\ sol_found = FALSE /\ Hinted # {} /\ ship_constraints # <<0, 0, 0, 0>>

-----------------------------------------------------------------------------
(* The order of the support search *)

\* C36: findvals extends the assignment it is given with the remaining variables in
\* descending order of current-domain size, so in every complete assignment it
\* tests a variable stands before the variables with a smaller current domain
C36_LargestDomainFirst ==
    [][Called("findvals") =>
          \A n \in 1 .. Len(result'.finals) :
             LET f == result'.finals[n]
             IN  \A i, j \in (Len(result'.assignment) + 1) .. Len(f) :
                    i < j => curDomainSize(f[i][1]) >= curDomainSize(f[j][1])]_vars

\* C37: when the solver reports success the recorded grid shows, at the position
\* of every hint of the input grid, that hint's character
C37_HintsShownInSolution ==
    Success => \A k \in Hinted : RecordedChar(k) = hints[k]

\* a success on a board whose hint is the left end of a ship
C37_Witness ==
    /\ Success /\ pc = "done"
    /\ \E k \in Hinted : hints[k] = "<" /\ RecordedChar(k) = "<" /\ RecordedChar(k + 1) = ">"

-----------------------------------------------------------------------------
(* Assigned values and the working sets *)

\* C38: when gac_enforce returns OK, the value of every assigned variable is
\* still in that variable's working set
C38_AssignedValueKept ==
    EnforcedOK => \A v \in Cells : isAssigned(v) => value[v] \in AsSet(curdom[v])

-----------------------------------------------------------------------------
(* The end of the search *)

\* C39: the search ends; it ends with success and one recorded grid or with
\* failure, and once a complete assignment has passed the terminal check no
\* variable is assigned again
C39_SearchTerminates ==
    /\ <>(pc = "done")
    /\ [](pc = "done" => (sol_found = TRUE => Len(solution) = Dim * (Dim + 1)))
    /\ [][sol_found = TRUE => value' = value /\ restores' = restores]_vars

\* a search that backed off at least one assignment before it ended with success
C39_Witness ==
    /\ pc = "done" /\ sol_found = TRUE
    /\ Len(solution) = Dim * (Dim + 1)
    /\ \E key \in DOMAIN restores : restores[key].restored > 0

====
